---- MODULE Spec2Model ----
(***************************************************************************)
(* Model of macroquad's experimental::collections::storage:                *)
(* a thread-local Option<HashMap<TypeId, Box<dyn Any>>> whose boxes hold   *)
(* Rc<RefCell<T>>, and the guards (Ref / RefMut) that try_get/try_get_mut  *)
(* hand out.  The guards are produced by RefCell::borrow on a reference    *)
(* into the map whose lifetime was transmuted to 'static: they hold the    *)
(* ADDRESS of the RefCell, not a clone of the Rc.  The heap is therefore   *)
(* modelled explicitly, with addresses that the allocator may hand out     *)
(* again after a cell has been freed.                                      *)
(***************************************************************************)
EXTENDS Integers, FiniteSets, Bags, TLC

\* ------------------------------------------------------------- bounds
MaxGuards == 2      \* guards the caller holds at the same time
MaxVal == 1         \* stored values range over 0..MaxVal

Types == {"T", "U"}
Values == 0 .. MaxVal
NoVal == MaxVal + 1

\* Heap addresses.  store allocates the new cell before it drops the replaced
\* one, so at most one cell per type plus one is ever allocated: with this
\* many addresses an allocation always finds a free one.
NumAddrs == Cardinality(Types) + 1
Addrs == 1 .. NumAddrs

\* What a guard is: the type it was asked for, the address of the RefCell it
\* points to, Ref (mut = FALSE) or RefMut (mut = TRUE).  dangling is history:
\* the cell the guard was acquired on has been freed since.
GuardKinds == [t : Types, addr : Addrs, mut : BOOLEAN, dangling : BOOLEAN]

VARIABLES
    storage,    \* STORAGE: [some, map]; map is a set of [key, addr] entries
    heap,       \* address -> [alloc, val, borrow]  (the RcBox<RefCell<T>>)
    guards,     \* the bag of Ref / RefMut the caller holds (of GuardKinds)
    stored,     \* history: types for which store was called
    ret,        \* what the most recent call did or returned
    other       \* a second thread's STORAGE, guards and stored (see Switch)

vars == <<storage, heap, guards, stored, ret, other>>

\* ------------------------------------------------------------- state
\* memory that holds no cell
FreeCell == [alloc |-> FALSE, val |-> 0, borrow |-> 0]

\* STORAGE starts as RefCell::new(None)
StorageNone == [some |-> FALSE, map |-> {}]

\* res: "stored", "released", "written" for store, a guard's drop, a write
\* through a guard; "guard" when an accessor returned a guard (v is the value
\* it reads); "none" for None; "panic" for a panic
Ret(res, t, v) == [res |-> res, t |-> t, v |-> v]

\* get_storage(): creates the map on first use, then returns it
GetStorage(s) == IF s.some THEN s ELSE [some |-> TRUE, map |-> {}]

\* HashMap::get(&TypeId::of::<T>())
Lookup(m, t) == {e \in m : e.key = t}

\* a faulty insert that keeps the entry the key already has
InsertIfAbsent(m, t, a) ==
    IF \E e \in m : e.key = t THEN m ELSE m \cup {[key |-> t, addr |-> a]}

\* a faulty insert that adds an entry beside the one the key already has
InsertBeside(m, t, a) == m \cup {[key |-> t, addr |-> a]}

\* HashMap::insert(TypeId::of::<T>(), Box::new(Rc::new(..))): replaces the entry
Insert(m, t, a) == {e \in m : e.key # t} \cup {[key |-> t, addr |-> a]}

\* the types that have a slot, and the address of the cell in a type's slot
Slots(s) == {e.key : e \in s.map}

HasSlot(t) == t \in Slots(storage)

SlotAddr(t) == (CHOOSE e \in Lookup(storage.map, t) : TRUE).addr

\* STORAGE is thread_local: storage, guards and stored are those of the
\* thread that is running, other holds those of a second thread.  The heap is
\* the process's: both threads allocate from it.
OtherNone == [storage |-> StorageNone, guards |-> EmptyBag, stored |-> {}]

\* the guards the running thread holds, and how many are held in the process
Live == BagToSet(guards)

NumLive == BagCardinality(guards) + BagCardinality(other.guards)

\* the value a read through guard g returns now: the cell's value while the
\* address is allocated, anything once the memory has been freed
Reads(g) == IF heap[g.addr].alloc THEN {heap[g.addr].val} ELSE Values

\* ------------------------------------------------------------- Init
Init ==
    /\ storage = StorageNone
    /\ heap = [a \in Addrs |-> FreeCell]
    /\ guards = EmptyBag
    /\ stored = {}
    /\ ret = Ret("init", "none", NoVal)
    /\ other = OtherNone

\* ------------------------------------------------------------- store
\* a faulty store that files a cell holding the default value, not data
StoreCellDefault(v) == [alloc |-> TRUE, val |-> 0, borrow |-> 0]

\* Rc::new(RefCell::new(data)): value data, borrow flag UNUSED
StoreCell(v) == [alloc |-> TRUE, val |-> v, borrow |-> 0]

\* history: the guards that point into the freed cells are dangling from now on
Invalidate(b, old) ==
    LET f(g) == IF g.addr \in old THEN [g EXCEPT !.dangling = TRUE] ELSE g
        D == {f(g) : g \in BagToSet(b)}
    IN [k \in D |-> CopiesIn(k, b) +
                    (IF k.addr \in old /\ k.dangling
                     THEN CopiesIn([k EXCEPT !.dangling = FALSE], b) ELSE 0)]

\* Addresses are names.  The allocator may return any free address; to keep
\* one state per heap shape, the address it returned and the address that is
\* the type's home are then exchanged everywhere (heap, guards, map), so that
\* the cell in a type's slot is always found at the type's home address.
Home(t) == IF t = "T" THEN 1 ELSE 2

Swap(a, h) == [x \in Addrs |-> IF x = a THEN h ELSE IF x = h THEN a ELSE x]

Rename(b, p) ==
    [k \in {[g EXCEPT !.addr = p[g.addr]] : g \in BagToSet(b)} |->
        b[[k EXCEPT !.addr = p[k.addr]]]]

\* a map's entries under a renaming of the addresses
RenameMap(m, p) == {[key |-> e.key, addr |-> p[e.addr]] : e \in m}

\* the cells no Box of a map owns: each Rc in a map is its cell's only
\* owner (the guards hold references, not Rc clones), so they are freed
Dropped(h, m) == {x \in Addrs : h[x].alloc /\ x \notin {e.addr : e \in m}}

Store(t, v) ==
    LET s == GetStorage(storage) IN
    \E a \in Addrs :
        \* Box::new(Rc::new(RefCell::new(data))) is evaluated first ...
        /\ ~heap[a].alloc
        /\ LET h1 == [heap EXCEPT ![a] = StoreCell(v)]
               \* ... then inserted; the Box insert returns is dropped
               m1 == Insert(s.map, t, a)
               old == Dropped(h1, m1 \cup other.storage.map)
               p == Swap(a, Home(t))
           IN /\ storage' = [some |-> TRUE, map |-> RenameMap(m1, p)]
              /\ heap' = [x \in Addrs |->
                            IF p[x] \in old THEN FreeCell ELSE h1[p[x]]]
              /\ guards' = Rename(Invalidate(guards, old), p)
              /\ other' = [other EXCEPT !.storage.map = RenameMap(@, p),
                                        !.guards = Rename(@, p)]
        /\ stored' = stored \cup {t}
        /\ ret' = Ret("stored", t, v)

\* ------------------------------------------------------------- acquisition
\* RefCell::borrow: one more reader unless the flag says "writing"
CanBorrow(c) == c.borrow + 1 > 0

\* RefCell::borrow_mut: only when the flag is UNUSED
CanBorrowMut(c) == c.borrow = 0

\* try_get / try_get_mut up to the borrow: None, a panic, or the cell to guard
TryOutcome(t, mut) ==
    LET es == Lookup(GetStorage(storage).map, t) IN
    IF es = {} THEN [res |-> "none", addr |-> 0]
    ELSE LET a == (CHOOSE e \in es : TRUE).addr IN
         IF (IF mut THEN CanBorrowMut(heap[a]) ELSE CanBorrow(heap[a]))
         THEN [res |-> "guard", addr |-> a]
         ELSE [res |-> "panic", addr |-> a]

\* a faulty unwrap that hands None on to the caller
UnwrapOrNone(o) == o

\* Option::unwrap in get / get_mut
Unwrap(o) == IF o.res = "none" THEN [res |-> "panic", addr |-> 0] ELSE o

\* the flag after RefCell::borrow (one reader more) / borrow_mut (writing)
Borrowed(c, mut) ==
    [c EXCEPT !.borrow = IF mut THEN c.borrow - 1 ELSE c.borrow + 1]

\* the call returns: the guard is handed to the caller, or nothing changes
\* a faulty accessor that marks the cell borrowed before it finds out that
\* the borrow is refused
CommitEager(t, mut, o) ==
    /\ storage' = GetStorage(storage)
    /\ stored' = stored
    /\ other' = other
    /\ IF o.res = "guard"
       THEN LET g == [t |-> t, addr |-> o.addr, mut |-> mut,
                      dangling |-> FALSE] IN
              /\ NumLive < MaxGuards
              /\ guards' = guards (+) SetToBag({g})
              /\ heap' = [heap EXCEPT ![o.addr] = Borrowed(heap[o.addr], mut)]
              /\ ret' = Ret("guard", t, heap[o.addr].val)
       ELSE /\ guards' = guards
            /\ heap' = IF o.addr \in Addrs
                       THEN [heap EXCEPT ![o.addr] = Borrowed(heap[o.addr], mut)]
                       ELSE heap
            /\ ret' = Ret(o.res, t, NoVal)

Commit(t, mut, o) ==
    /\ storage' = GetStorage(storage)
    /\ stored' = stored
    /\ other' = other
    /\ IF o.res = "guard"
       THEN LET g == [t |-> t, addr |-> o.addr, mut |-> mut, dangling |-> FALSE] IN
              /\ NumLive < MaxGuards
              /\ guards' = guards (+) SetToBag({g})
              /\ heap' = [heap EXCEPT ![o.addr] = Borrowed(heap[o.addr], mut)]
              /\ ret' = Ret("guard", t, heap[o.addr].val)
       ELSE /\ UNCHANGED <<heap, guards>>
            /\ ret' = Ret(o.res, t, NoVal)

\* try_get: Option<Ref> from the lookup and RefCell::borrow
TryGet(t) == /\ t \in Types /\ Commit(t, FALSE, TryOutcome(t, FALSE))

\* get: try_get::<T>().unwrap()
Get(t) == /\ t \in Types /\ Commit(t, FALSE, Unwrap(TryOutcome(t, FALSE)))

\* try_get_mut: Option<RefMut> from the lookup and RefCell::borrow_mut
TryGetMut(t) == /\ t \in Types /\ Commit(t, TRUE, TryOutcome(t, TRUE))

\* get_mut: try_get_mut::<T>().unwrap()
GetMut(t) == /\ t \in Types /\ Commit(t, TRUE, Unwrap(TryOutcome(t, TRUE)))

\* ------------------------------------------------------------- guards
\* the flag after the drop of a Ref (one reader less) / of a RefMut (flag + 1)
Unborrowed(c, mut) ==
    [c EXCEPT !.borrow = IF mut THEN c.borrow + 1 ELSE c.borrow - 1]

\* Drop of the guard: the flag is written through the guard's address,
\* whatever lives there now
Release(g) ==
    /\ BagIn(g, guards)
    /\ heap' = IF heap[g.addr].alloc
               THEN [heap EXCEPT ![g.addr] = Unborrowed(heap[g.addr], g.mut)]
               ELSE heap
    /\ guards' = guards (-) SetToBag({g})
    /\ ret' = Ret("released", g.t, NoVal)
    /\ UNCHANGED <<storage, stored, other>>

\* a faulty write that is lost
WrittenNowhere(c, v) == c

\* the cell after *guard = v
Written(c, v) == [c EXCEPT !.val = v]

\* DerefMut: a write through an exclusive guard, to the guard's address
Write(g, v) ==
    /\ BagIn(g, guards)
    /\ g.mut
    /\ heap' = IF heap[g.addr].alloc
               THEN [heap EXCEPT ![g.addr] = Written(heap[g.addr], v)] ELSE heap
    /\ ret' = Ret("written", g.t, v)
    /\ UNCHANGED <<storage, guards, stored, other>>

\* the caller drops one of the guards it holds
Drop == \E g \in Live : Release(g)

\* the caller assigns through one of the exclusive guards it holds
Assign == \E g \in Live, v \in Values : Write(g, v)

\* ------------------------------------------------------------- Next
Next ==
    \/ \E t \in Types, v \in Values : Store(t, v)
    \/ \E t \in Types : TryGet(t)
    \/ \E t \in Types : Get(t)
    \/ \E t \in Types : TryGetMut(t)
    \/ \E t \in Types : GetMut(t)
    \/ Drop
    \/ Assign

Spec == Init /\ [][Next]_vars

\* ------------------------------------------------------------- threads
Inverse(p) == [y \in Addrs |-> CHOOSE x \in Addrs : p[x] = y]

\* the exchange that takes the cell of t's entry in m, found where the
\* renaming r has put it, to t's home
ToHome(m, t, r) ==
    IF Lookup(m, t) = {} THEN [x \in Addrs |-> x]
    ELSE Swap(r[(CHOOSE e \in Lookup(m, t) : TRUE).addr], Home(t))

\* a renaming that takes the cell of each entry of m to its type's home
Normal(m) ==
    LET s1 == ToHome(m, "T", [x \in Addrs |-> x])
        s2 == ToHome(m, "U", s1)
    IN [x \in Addrs |-> s2[s1[x]]]

\* a bag of guards under a renaming of the addresses
Moved(b, p) ==
    LET q == Inverse(p) IN
    [k \in {[g EXCEPT !.addr = p[g.addr]] : g \in BagToSet(b)} |->
        b[[k EXCEPT !.addr = q[k.addr]]]]

\* The second thread is scheduled: STORAGE.with now finds that thread's
\* STORAGE, and the guards it holds are the ones that can be dropped or
\* written through.  The heap stays; its addresses are renamed so that the
\* running thread's cells are at their types' homes.
Switch ==
    LET p == Normal(other.storage.map)
        q == Inverse(p)
    IN
    /\ storage' = [other.storage EXCEPT !.map = RenameMap(@, p)]
    /\ guards' = Moved(other.guards, p)
    /\ stored' = other.stored
    /\ other' = [storage |-> [storage EXCEPT !.map = RenameMap(@, p)],
                 guards |-> Moved(guards, p),
                 stored |-> stored]
    /\ heap' = [y \in Addrs |-> heap[q[y]]]
    /\ ret' = Ret("switched", "none", NoVal)

NextThreads ==
    \/ Next
    \/ Switch

SpecThreads == Init /\ [][NextThreads]_vars

TypeOK ==
    /\ storage.some \in BOOLEAN
    /\ \A e \in storage.map : e.key \in Types /\ e.addr = Home(e.key)
    /\ \A e \in storage.map : heap[e.addr].alloc
    /\ \A e \in other.storage.map : e.key \in Types /\ heap[e.addr].alloc
    /\ \A a \in Addrs :
          heap[a].alloc => \E e \in storage.map \cup other.storage.map : e.addr = a
    /\ \A a \in Addrs : heap[a].val \in Values /\ heap[a].borrow \in Int
    /\ \A g \in Live : g \in GuardKinds
    /\ NumLive <= MaxGuards
    /\ stored \subseteq Types
    /\ other.stored \subseteq Types
    /\ BagToSet(other.guards) \subseteq GuardKinds

\* ------------------------------------------------------------- properties
\* the guards that were acquired on the cell now in t's slot
GuardsOn(t) == {g \in Live : g.t = t /\ ~g.dangling}

\* the guard an accessor for t hands out (mut: exclusive)
NewGuard(t, mut) ==
    [t |-> t, addr |-> SlotAddr(t), mut |-> mut, dangling |-> FALSE]

\* a call of one of the four accessors for t (every one of them leaves in
\* ret the type it was called for and a guard, None or a panic)
Returned(t) == ret'.t = t /\ ret'.res \in {"guard", "none", "panic"}

Acquire(t) ==
    Returned(t) /\ (TryGet(t) \/ Get(t) \/ TryGetMut(t) \/ GetMut(t))

\* C1: store::<T>(v) immediately followed by get::<T>() returns a read guard
\* whose value is v.  (It holds whatever guards are live at the store: they
\* belong to the cell the store replaces.)
C1_StoreThenGet ==
    [][\A t \in Types :
          (ret.res = "stored" /\ ret.t = t /\ Returned(t) /\ Get(t))
              => /\ ret' = Ret("guard", t, ret.v)
                 /\ guards' = guards (+) SetToBag({NewGuard(t, FALSE)})
                 /\ Reads(NewGuard(t, FALSE))' = {ret.v}]_vars

\* a get has returned a read guard on the stored cell, which holds MaxVal,
\* while a guard of a replaced cell of the type is still held
C1_Witness ==
    /\ ret = Ret("guard", "T", MaxVal)
    /\ \E g \in GuardsOn("T") : ~g.mut /\ Reads(g) = {MaxVal}
    /\ \E g \in Live : g.t = "T" /\ g.dangling /\ g.mut

C3_OldGenerationValid ==
    \A g \in Live :
        /\ ~g.dangling
        /\ heap[g.addr].alloc
        /\ Cardinality(Reads(g)) = 1

\* C4: a borrow conflict is fatal.  get_mut and try_get_mut for a type panic
\* while any guard acquired on the cell in the type's slot is held; get and
\* try_get panic while an exclusive guard acquired on that cell is held; and
\* try_get / try_get_mut never return None for a type that has a slot.
C4_ConflictIsFatal ==
    [][\A t \in Types :
          /\ (GuardsOn(t) # {} /\ Returned(t) /\ (TryGetMut(t) \/ GetMut(t)))
                => ret'.res = "panic"
          /\ ((\E g \in GuardsOn(t) : g.mut) /\ Returned(t)
                /\ (TryGet(t) \/ Get(t)))
                => ret'.res = "panic"
          /\ (HasSlot(t) /\ Returned(t) /\ (TryGet(t) \/ TryGetMut(t)))
                => ret'.res # "none"]_vars

\* C5: exclusivity per type.  While an exclusive guard for a type is held no
\* second guard for the type is held, every accessor call for the type
\* panics, and a call made once the exclusive guard is released succeeds.
C5_ExclusivePerType ==
    [][\A t \in Types :
          /\ (\E g \in Live : g.t = t /\ g.mut)
                => /\ Cardinality({g \in Live : g.t = t}) = 1
                   /\ \A g \in Live : g.t = t => guards[g] = 1
                   /\ Acquire(t) => ret'.res = "panic"
          /\ (/\ \E g \in Live : g.t = t /\ g.mut /\ Release(g)
              /\ ~\E g \in Live' : g.t = t /\ g.mut)
                => /\ Unwrap(TryOutcome(t, FALSE))'.res = "guard"
                   /\ Unwrap(TryOutcome(t, TRUE))'.res = "guard"]_vars

\* C6: absence.  For a type that was never stored (the map may not exist
\* yet) try_get and try_get_mut return None and get and get_mut panic, and
\* the slots, the cells and the guards are left as they were; and whenever
\* try_get / try_get_mut would not return None, get / get_mut do exactly
\* what try_get / try_get_mut do.
C6_Absence ==
    [][\A t \in Types :
          /\ (t \notin stored /\ Returned(t) /\ (TryGet(t) \/ TryGetMut(t)))
                => ret' = Ret("none", t, NoVal)
          /\ (t \notin stored /\ Returned(t) /\ (Get(t) \/ GetMut(t)))
                => ret' = Ret("panic", t, NoVal)
          /\ (t \notin stored /\ Acquire(t))
                => /\ Slots(storage') = Slots(storage)
                   /\ UNCHANGED <<heap, guards, stored>>
          /\ (Returned(t) /\ TryOutcome(t, FALSE).res # "none" /\ Get(t))
                => TryGet(t)
          /\ (Returned(t) /\ TryOutcome(t, TRUE).res # "none" /\ GetMut(t))
                => TryGetMut(t)]_vars

\* an accessor has just returned None for U, which was never stored, while T
\* is stored and guards on it are held
C6_Witness ==
    /\ ret = Ret("none", "U", NoVal)
    /\ "U" \notin stored
    /\ "T" \in stored
    /\ GuardsOn("T") # {}

\* get has just panicked on the first call ever made: there is no map yet
C6_WitnessNoMap ==
    /\ ret = Ret("panic", "U", NoVal)
    /\ stored = {}
    /\ storage.map = {}

C8_SharedReadsCoexist ==
    [][\A t \in Types :
          /\ (HasSlot(t) /\ ~(\E g \in GuardsOn(t) : g.mut)
                /\ Returned(t) /\ (TryGet(t) \/ Get(t)))
                => ret'.res = "guard"
          /\ \E v \in Values :
                \A g \in Live' : (g.t = t /\ ~g.mut) => Reads(g)' = {v}]_vars

\* C9: store never fails.  A store returns normally in every state, and the
\* guards held on the cell it replaces stay valid, with that cell's borrow
\* flag as it was.
C9_StoreNeverFails ==
    [][\A t \in Types :
          (\E v \in Values : Store(t, v))
              => /\ ret' \in {Ret("stored", t, v) : v \in Values}
                 /\ \A g \in GuardsOn(t) :
                       \E g2 \in Live' :
                          /\ g2 = [g EXCEPT !.addr = g2.addr]
                          /\ guards'[g2] = guards[g]
                          /\ heap'[g2.addr].alloc
                          /\ heap'[g2.addr].borrow = heap[g.addr].borrow]_vars

\* a store of each type and value can be taken in every state
C9_StoreEnabled == \A t \in Types, v \in Values : ENABLED Store(t, v)

\* C10: slots are unique per type and never removed.  The map has at most one
\* entry per type; a type that was stored has a slot in every later state, so
\* that try_get / try_get_mut do not return None for it.
C10_SlotsKept ==
    /\ \A t \in Types : Cardinality(Lookup(storage.map, t)) <= 1
    /\ stored = Slots(storage)
    /\ \A t \in stored : /\ TryOutcome(t, FALSE).res # "none"
                         /\ TryOutcome(t, TRUE).res # "none"
    /\ ret.res = "none" => ret.t \notin stored

\* both types have been stored, T more than once (a guard of a replaced cell
\* of T is held), and an accessor has just returned a guard for T
C10_Witness ==
    /\ stored = Types
    /\ \E g \in Live : g.t = "T" /\ g.dangling
    /\ ret.res = "guard" /\ ret.t = "T"
    /\ Cardinality(storage.map) = 2

\* ------------------------------------------------------------- cells
\* the addresses of the cells the map's boxes own
SlotCells == {e.addr : e \in storage.map}

\* how many guards of a kind (mut: exclusive) are held on the cell in t's slot
Held(t, mut) ==
    LET G == {g \in GuardsOn(t) : g.mut = mut}
        RECURSIVE Sum(_)
        Sum(S) == IF S = {} THEN 0
                  ELSE LET g == CHOOSE x \in S : TRUE
                       IN guards[g] + Sum(S \ {g})
    IN Sum(G)

\* C11: cell lifetime is that of its longest holder.  No guard that is held
\* refers to a freed cell (a cell is freed only once the map has dropped it
\* and every guard on it was released), and a cell that the map has dropped
\* and that no guard refers to is freed.
C11_CellLifetime ==
    /\ \A g \in Live : ~g.dangling
    /\ \A a \in Addrs :
          heap[a].alloc => (a \in SlotCells \/ \E g \in Live : g.addr = a)

\* C12: borrow-state invariant.  The borrow flag of the cell in a type's slot
\* is 0 with no guard held on the cell, n with n read guards and no exclusive
\* guard, and -1 with one exclusive guard and no read guard; and the flag of a
\* cell that stays in its slot changes only when a guard is handed out or
\* released.
C12_BorrowStateMatches ==
    [][\A t \in Types :
          /\ HasSlot(t)' =>
                \/ /\ Held(t, TRUE)' = 0
                   /\ heap'[SlotAddr(t)'].borrow = Held(t, FALSE)'
                \/ /\ Held(t, TRUE)' = 1
                   /\ Held(t, FALSE)' = 0
                   /\ heap'[SlotAddr(t)'].borrow = -1
          /\ (/\ HasSlot(t)
              /\ ret'.res # "stored"
              /\ heap'[SlotAddr(t)'].borrow # heap[SlotAddr(t)].borrow)
                => ret'.res \in {"guard", "released"}]_vars

\* C13: release re-enables acquisition.  The release of a read guard held on
\* the cell in a type's slot takes one off the cell's count, the release of
\* the exclusive guard clears the flag; and once no guard is held on the cell
\* in the slot, the cell is unborrowed and get and get_mut both succeed.
C13_ReleaseReenables ==
    [][\A t \in Types :
          /\ \A g \in GuardsOn(t) :
                (ret'.res = "released" /\ Release(g))
                    => heap'[SlotAddr(t)].borrow
                          = IF g.mut THEN 0
                            ELSE heap[SlotAddr(t)].borrow - 1
          /\ (HasSlot(t)' /\ GuardsOn(t)' = {})
                => /\ heap'[SlotAddr(t)'].borrow = 0
                   /\ Unwrap(TryOutcome(t, FALSE))'.res = "guard"
                   /\ Unwrap(TryOutcome(t, TRUE))'.res = "guard"]_vars

\* C14: type isolation.  A store, an accessor call, a write through a guard
\* and a guard's release for one type leave the slot of every other type, the
\* value in it and its cell's borrow flag as they were; and get and get_mut
\* for a type for which no guard is held succeed while an exclusive guard for
\* another type is held.
C14_TypeIsolation ==
    [][\A t \in Types : \A u \in Types \ {t} :
          /\ (ret'.t = t /\ HasSlot(u))
                => /\ Lookup(storage'.map, u) = Lookup(storage.map, u)
                   /\ heap'[SlotAddr(u)] = heap[SlotAddr(u)]
          /\ (ret'.t = t /\ ~HasSlot(u)) => ~HasSlot(u)'
          /\ (/\ HasSlot(u)'
              /\ \E g \in Live' : g.t = t /\ g.mut
              /\ \A g \in Live' : g.t # u)
                => /\ Unwrap(TryOutcome(u, FALSE))'.res = "guard"
                   /\ Unwrap(TryOutcome(u, TRUE))'.res = "guard"]_vars

\* C15: per-thread confinement.  Each thread has its own registry, empty
\* until the thread uses it.  A store, an accessor call, a write through a
\* guard or a guard's release in the running thread leaves the other thread's
\* slots, and the value and the borrow flag of the cell in each of them, as
\* they were; and try_get / try_get_mut return None in a thread for a type
\* that thread has not stored, whatever the other thread has stored.
C15_ThreadConfinement ==
    [][/\ ret'.res # "switched"
            => /\ other'.storage.some = other.storage.some
               /\ other'.stored = other.stored
               /\ Slots(other'.storage) = Slots(other.storage)
               /\ \A e \in other.storage.map :
                     \E e2 \in other'.storage.map :
                        e2.key = e.key /\ heap'[e2.addr] = heap[e.addr]
       /\ ret'.res = "switched"
            => /\ Slots(storage') = Slots(other.storage)
               /\ Slots(other'.storage) = Slots(storage)
               /\ stored' = other.stored
       /\ \A t \in Types :
             (t \notin stored /\ Returned(t) /\ (TryGet(t) \/ TryGetMut(t)))
                 => ret'.res = "none"]_vars

\* C16: a rejected acquisition changes nothing.  When one of the four
\* accessors panics (the type has no slot, or the borrow is refused), the
\* slots, the cells with their values and borrow flags, and the guards held,
\* with what they point to, are what they were before the call.
C16_RejectedChangesNothing ==
    [][\A t \in Types :
          (Returned(t) /\ ret'.res = "panic" /\ Acquire(t))
              => /\ storage'.map = storage.map
                 /\ heap' = heap
                 /\ guards' = guards
                 /\ stored' = stored
                 /\ \A g \in Live : Reads(g)' = Reads(g)]_vars

\* get_mut has just panicked on a borrow conflict: a read guard is held on
\* the cell in T's slot, whose flag counts it
C16_Witness ==
    /\ ret = Ret("panic", "T", NoVal)
    /\ HasSlot("T")
    /\ Held("T", FALSE) = 1
    /\ heap[SlotAddr("T")].borrow = 1
    /\ Unwrap(TryOutcome("T", TRUE)).res = "panic"

====
